---------------------------- MODULE Spec2Model ----------------------------
(***************************************************************************)
(* Network-diagnostic probes of image-check-agent:                         *)
(*   src/tools/image_tools.py   _parse_image_name, _check_image_manifest_sync, *)
(*                              check_image_pull                           *)
(*   src/tools/common_tools.py  create_dns_query, check_dns, check_port    *)
(* Python str values are TLA+ strings; an Optional value is None (<<>>) or *)
(* Some(v) (<<v>>); bytes values are tuples of numbers 0..255.             *)
(* The timestamp field of the results (datetime.now) is left out.  A       *)
(* socket is "open" until the code calls close() on it.                    *)
(***************************************************************************)
EXTENDS Integers, Sequences, FiniteSets, TLC

VARIABLES
    pc,                \* position of the active call
    call,              \* the active call: its function and arguments
    parsed,            \* image_tools: parsed (registry, repository, tag)
    token,             \* image_tools: the local variable token
    token_response,    \* image_tools: token_response (status and body)
    manifest_response, \* image_tools: manifest_response.status_code
    http,              \* HTTP requests issued by the active call, in order
    exc,               \* the exception e caught by the active call
    elapsed,           \* time.time() - start_time, in microseconds
    sock,              \* common_tools: the socket of the active call
    sent,              \* datagrams passed to sock.sendto by the active call
    response,          \* common_tools: the reply datagram
    response_time,     \* common_tools: the local variable response_time
    ret                \* the value the active call returns

vars == <<pc, call, parsed, token, token_response, manifest_response, http,
          exc, elapsed, sock, sent, response, response_time, ret>>

---------------------------------------------------------------------------
(* Optional values and Python's implicit return value.                     *)

None == <<>>

Some(v) == <<v>>

\* what a function that falls off its end returns: no result mapping
PyNone == [none |-> TRUE]

NoCall == [fn |-> "none"]

---------------------------------------------------------------------------
(* Bounds of the model.                                                    *)

\* longest generated image name, in characters
MaxLen == 5

\* most scheme prefixes stacked in front of a registry override
MaxSchemes == 2

\* longest reply datagram, in bytes
MaxRespLen == 13

\* longest duration of one network exchange, in units of 7 microseconds
MaxRtt == 1

---------------------------------------------------------------------------
(* str methods.                                                            *)

\* s.startswith(p)
StartsWith(s, p) == Len(s) >= Len(p) /\ SubSeq(s, 1, Len(p)) = p

\* s.endswith(p)
EndsWith(s, p) == Len(s) >= Len(p) /\ SubSeq(s, Len(s) - Len(p) + 1, Len(s)) = p

\* p in s
Contains(s, p) == \E i \in 1..(Len(s) - Len(p) + 1) : SubSeq(s, i, i + Len(p) - 1) = p

\* s.find(c) + 1 for a one-character c that occurs in s
Find(s, c) == CHOOSE i \in 1..Len(s) :
                 /\ SubSeq(s, i, i) = c
                 /\ \A j \in 1..(i - 1) : SubSeq(s, j, j) # c

RECURSIVE Split(_, _)
\* s.split(c) for a one-character c
Split(s, c) == IF ~Contains(s, c) THEN <<s>>
               ELSE LET i == Find(s, c)
                    IN  <<SubSeq(s, 1, i - 1)>> \o Split(SubSeq(s, i + 1, Len(s)), c)

\* s.split(c, 1) for a one-character c
Split1(s, c) == IF ~Contains(s, c) THEN <<s>>
                ELSE LET i == Find(s, c)
                     IN  <<SubSeq(s, 1, i - 1), SubSeq(s, i + 1, Len(s))>>

RECURSIVE Join(_, _)
\* c.join(parts)
Join(parts, c) == IF Len(parts) = 0 THEN ""
                  ELSE IF Len(parts) = 1 THEN parts[1]
                  ELSE parts[1] \o c \o Join(Tail(parts), c)

\* bool(x) of an Optional[str]
Truthy(x) == x # None /\ x[1] # ""

---------------------------------------------------------------------------
(* image_tools.py: the Image Reference Resolver.                           *)

default_registry == "registry-1.docker.io"

\* lines 40-44: one leading https:// or http:// is removed
StripScheme(registry) ==
    IF StartsWith(registry, "https://")
    THEN SubSeq(registry, Len("https://") + 1, Len(registry))
    ELSE IF StartsWith(registry, "http://")
    THEN SubSeq(registry, Len("http://") + 1, Len(registry))
    ELSE registry

\* lines 22-38: <<registry, image_name>> before the scheme is stripped
ResolveRegistry(image_name, registry_override) ==
    IF Truthy(registry_override)
    THEN <<registry_override[1], image_name>>
    ELSE LET parts == Split(image_name, "/")
         IN  IF Contains(parts[1], ".") /\ Len(parts) > 1
             THEN <<parts[1], Join(Tail(parts), "/")>>
             ELSE IF Contains(parts[1], ".") /\ Len(parts) = 1 /\ Contains(parts[1], ":")
             THEN <<parts[1], "">>
             ELSE <<default_registry, image_name>>

\* lines 47-51: <<repository, tag>>
RepositoryTag(image_name) ==
    IF ~Contains(image_name, ":")
    THEN <<image_name, "latest">>
    ELSE Split1(image_name, ":")

\* lines 54-55
LibraryPrefix(registry, repository) ==
    IF registry = default_registry /\ ~Contains(repository, "/")
    THEN "library/" \o repository
    ELSE repository

_parse_image_name(image_name, registry_override) ==
    LET rn       == ResolveRegistry(image_name, registry_override)
        registry == StripScheme(rn[1])
        rt       == RepositoryTag(rn[2])
    IN  [registry   |-> registry,
         repository |-> LibraryPrefix(registry, rt[1]),
         tag        |-> rt[2]]

---------------------------------------------------------------------------
(* Inputs of the resolver.                                                 *)

NameAlphabet == {"a", ".", "/", ":"}

RECURSIVE Strings(_, _)
\* the strings over alphabet of at most n characters
Strings(alphabet, n) ==
    IF n = 0 THEN {""}
    ELSE LET shorter == Strings(alphabet, n - 1)
         IN  shorter \cup {s \o c : s \in shorter, c \in alphabet}

\* image names of the docstrings, the __main__ block and the spec
ExampleNames ==
    {"hello-world", "nginx:latest", "nginx:1.25", "myregistry.com/myimage:v2",
     "myregistry.com/myimage:tag", "myregistry.com:5000",
     "nonexistent-image-for-test:latest", "registry-1.docker.io/nginx",
     "localhost:5000/myimage", "user/app:1.0"}

GeneratedNames == Strings(NameAlphabet, MaxLen)

ExampleHosts == {"", "docker.io", "registry-1.docker.io", "docker.m.daocloud.io",
                 "myregistry.com"}

Schemes == Strings({"h", "s"}, MaxSchemes)

RECURSIVE SchemePrefix(_)
\* one scheme per letter: h is http://, s is https://
SchemePrefix(letters) ==
    IF letters = "" THEN ""
    ELSE (IF Head(letters) = "s" THEN "https://" ELSE "http://")
         \o SchemePrefix(Tail(letters))

Overrides == {None} \cup {Some(SchemePrefix(l) \o h) : l \in Schemes, h \in ExampleHosts}

ResolverInputs ==
    {[fn |-> "_parse_image_name", image_name |-> n, registry |-> None] :
        n \in GeneratedNames \cup ExampleNames}
    \cup
    {[fn |-> "_parse_image_name", image_name |-> n, registry |-> r] :
        n \in ExampleNames, r \in Overrides}

---------------------------------------------------------------------------
(* The resolver applied to one input.                                      *)

Quiet == /\ token = None /\ token_response = None /\ manifest_response = None
         /\ http = <<>> /\ exc = None /\ elapsed = 0 /\ sock = "none"
         /\ sent = <<>> /\ response = None /\ response_time = None

InitResolver ==
    /\ pc = "call"
    /\ call \in ResolverInputs
    /\ parsed = None
    /\ ret = None
    /\ Quiet

Resolve ==
    /\ pc = "call"
    /\ call.fn = "_parse_image_name"
    /\ parsed' = Some(_parse_image_name(call.image_name, call.registry))
    /\ ret' = parsed'
    /\ pc' = "return"
    /\ UNCHANGED <<call, token, token_response, manifest_response, http, exc,
                   elapsed, sock, sent, response, response_time>>

NextResolver == Resolve

SpecResolver == InitResolver /\ [][NextResolver]_vars

---------------------------------------------------------------------------
(* image_tools.py: the Registry Manifest Probe.                            *)

\* lines 73-75
is_docker_hub_or_mirror(registry_host) ==
    \/ registry_host = "registry-1.docker.io"
    \/ EndsWith(registry_host, "docker.io")
    \/ Contains(registry_host, "daocloud.io")

\* line 84
token_url(repository) ==
    "https://auth.docker.io/token?service=registry.docker.io&scope=repository:"
        \o repository \o ":pull"

\* line 97
manifest_url(registry_host, repository, tag) ==
    "https://" \o registry_host \o "/v2/" \o repository \o "/manifests/" \o tag

AcceptTypes ==
    "application/vnd.docker.distribution.manifest.v2+json, "
        \o "application/vnd.docker.distribution.manifest.list.v2+json, application/json"

\* the headers with an Authorization header whatever the token is
HeadersAlwaysAuthorized(tok) ==
    [Accept |-> AcceptTypes,
     Authorization |-> "Bearer " \o (IF tok = None THEN "None" ELSE tok[1])]

\* lines 99-104
ManifestHeaders(tok) ==
    IF Truthy(tok)
    THEN [Accept |-> AcceptTypes, Authorization |-> "Bearer " \o tok[1]]
    ELSE [Accept |-> AcceptTypes]

\* Response.raise_for_status raises HTTPError for 4xx and 5xx only
RaisesForStatus(status) == 400 <= status /\ status < 600

\* str(e) of the HTTPError raised by raise_for_status
HTTPErrorText(status, url) ==
    ToString(status)
        \o (IF status < 500 THEN " Client Error" ELSE " Server Error")
        \o " for url: " \o url

\* round(response_time, 2): microseconds to hundredths of a millisecond
Round2(us) == (us + 5) \div 10

\* lines 112-121
FoundResult(status) ==
    [success          |-> TRUE,
     image_name       |-> call.image_name,
     registry         |-> parsed[1].registry,
     response_time_ms |-> Some(Round2(elapsed')),
     error            |-> None,
     status_code      |-> Some(status),
     message          |-> "Image manifest found (Status: " \o ToString(status) \o ")"]

\* lines 123-132
NotFoundResult(status) ==
    [success          |-> FALSE,
     image_name       |-> call.image_name,
     registry         |-> parsed[1].registry,
     response_time_ms |-> Some(Round2(elapsed')),
     error            |-> Some("Image manifest not found (Status: " \o ToString(status) \o ")"),
     status_code      |-> Some(status),
     message          |-> "Image manifest not found (Status: " \o ToString(status) \o ")"]

\* a handler that reports e.response.status_code of an HTTPError
ExceptResultWithStatus(e) ==
    [success          |-> FALSE,
     image_name       |-> call.image_name,
     registry         |-> parsed[1].registry,
     response_time_ms |-> Some(Round2(elapsed')),
     error            |-> Some("HTTP Request Error: " \o e.text),
     status_code      |-> e.status,
     message          |-> e.text]

\* a handler that reports the bare exception text as its error
ExceptResultBareError(e) ==
    [success          |-> FALSE,
     image_name       |-> call.image_name,
     registry         |-> parsed[1].registry,
     response_time_ms |-> Some(Round2(elapsed')),
     error            |-> Some(e.text),
     status_code      |-> None,
     message          |-> e.text]

\* lines 137-160: the two handlers
ExceptResult(e) ==
    [success          |-> FALSE,
     image_name       |-> call.image_name,
     registry         |-> parsed[1].registry,
     response_time_ms |-> Some(Round2(elapsed')),
     error            |-> Some((IF e.type = "RequestException"
                                THEN "HTTP Request Error: "
                                ELSE "An unexpected error occurred: ") \o e.text),
     status_code      |-> None,
     message          |-> e.text]

\* str(e) of the transport faults of requests.get and requests.head
TransportErrors == {"Name or service not known", "Read timed out",
                    "certificate verify failed"}

TokenStatuses == {200, 204, 300, 401, 503}

ManifestStatuses == {200, 204, 301, 401, 404, 500}

\* bodies of the token endpoint: not JSON, a JSON list, a JSON object
TokenBodies == {[kind |-> "invalid"], [kind |-> "list"],
                [kind |-> "object", token |-> None],
                [kind |-> "object", token |-> Some("")],
                [kind |-> "object", token |-> Some("tok")]}

\* Response.json raises requests' JSONDecodeError (a RequestException) or,
\* before requests 2.27, a plain ValueError
JsonErrorTypes == {"RequestException", "Exception"}

\* microseconds one network exchange may take
Durations == {7 * d : d \in 0..MaxRtt}

ProbeNames == {"hello-world", "nginx:latest", "myregistry.com/myimage:tag",
               "nonexistent-image-for-test:latest"}

ProbeRegistries == {None, Some("docker.m.daocloud.io"), Some("docker.io"),
                    Some("myregistry.com"), Some("https://registry-1.docker.io")}

ProbeTimeouts == {10}

\* lines 163-183 and 63-79: check_image_pull up to the try block
ImgCall ==
    /\ pc = "idle"
    /\ \E n \in ProbeNames, r \in ProbeRegistries, t \in ProbeTimeouts :
          /\ call' = [fn |-> "check_image_pull", image_name |-> n,
                      registry |-> r, timeout |-> t]
          /\ parsed' = Some(_parse_image_name(n, r))
    /\ token' = None
    /\ elapsed' = 0
    /\ pc' = IF is_docker_hub_or_mirror(parsed'[1].registry) THEN "token" ELSE "manifest"
    /\ UNCHANGED <<token_response, manifest_response, http, exc, sock, sent,
                   response, response_time, ret>>

\* the call leaves through a handler
Caught(e) ==
    /\ exc' = Some(e)
    /\ ret' = Some(ExceptResult(e))
    /\ pc' = "done"

\* lines 82-93: the token request
TokenRequest ==
    /\ pc = "token"
    /\ LET url == token_url(parsed[1].repository)
       IN  /\ http' = Append(http, [method |-> "GET", url |-> url,
                                    headers |-> [x \in {} |-> ""],
                                    timeout |-> call.timeout])
           /\ \E d \in Durations :
                /\ elapsed' = elapsed + d
                /\ \/ \E text \in TransportErrors :
                        /\ Caught([type |-> "RequestException", text |-> text,
                                status |-> None])
                        /\ UNCHANGED <<token, token_response>>
                   \/ \E status \in TokenStatuses, body \in TokenBodies :
                        /\ token_response' = Some([status |-> status, body |-> body])
                        /\ IF RaisesForStatus(status)
                           THEN /\ Caught([type |-> "RequestException",
                                           text |-> HTTPErrorText(status, url),
                                           status |-> Some(status)])
                                /\ UNCHANGED token
                           ELSE IF body.kind = "invalid"
                           THEN /\ \E type \in JsonErrorTypes :
                                     Caught([type |-> type,
                                             text |-> "Expecting value: line 1 column 1 (char 0)",
                                             status |-> None])
                                /\ UNCHANGED token
                           ELSE IF body.kind = "list"
                           THEN /\ Caught([type |-> "Exception",
                                           text |-> "'list' object has no attribute 'get'",
                                           status |-> None])
                                /\ UNCHANGED token
                           ELSE /\ token' = body.token
                                /\ pc' = "manifest"
                                /\ UNCHANGED <<exc, ret>>
    /\ UNCHANGED <<call, parsed, manifest_response, sock, sent, response, response_time>>

\* lines 111-135: the status of the manifest response classified
ManifestClassify(status, url) ==
    IF status = 200
    THEN ret' = Some(FoundResult(status)) /\ UNCHANGED exc
    ELSE IF status = 404
    THEN ret' = Some(NotFoundResult(status)) /\ UNCHANGED exc
    ELSE IF RaisesForStatus(status)
    THEN LET e == [type |-> "RequestException", text |-> HTTPErrorText(status, url),
                   status |-> Some(status)]
         IN  exc' = Some(e) /\ ret' = Some(ExceptResult(e))
    ELSE ret' = Some(PyNone) /\ UNCHANGED exc

\* lines 95-135: the manifest request
ManifestRequest ==
    /\ pc = "manifest"
    /\ LET url == manifest_url(parsed[1].registry, parsed[1].repository, parsed[1].tag)
       IN  /\ http' = Append(http, [method |-> "HEAD", url |-> url,
                                    headers |-> ManifestHeaders(token),
                                    timeout |-> call.timeout])
           /\ \E d \in Durations :
                /\ elapsed' = elapsed + d
                /\ \/ \E text \in TransportErrors :
                        /\ Caught([type |-> "RequestException", text |-> text,
                                status |-> None])
                        /\ UNCHANGED manifest_response
                   \/ \E status \in ManifestStatuses :
                        /\ manifest_response' = Some(status)
                        /\ ManifestClassify(status, url)
                        /\ pc' = "done"
    /\ UNCHANGED <<call, parsed, token, token_response, sock, sent, response,
                   response_time>>

\* the call has returned: its locals are gone
Return ==
    /\ pc = "done"
    /\ pc' = "idle"
    /\ call' = NoCall
    /\ parsed' = None
    /\ token' = None
    /\ token_response' = None
    /\ manifest_response' = None
    /\ http' = <<>>
    /\ exc' = None
    /\ elapsed' = 0
    /\ sock' = "none"
    /\ sent' = <<>>
    /\ response' = None
    /\ response_time' = None
    /\ ret' = None

---------------------------------------------------------------------------
(* common_tools.py: the DNS codec.                                         *)

\* the mapping with TXT added
record_types_with_TXT == [A |-> 1, AAAA |-> 28, MX |-> 15, CNAME |-> 5, TXT |-> 16]

\* lines 83-88
record_types == [A |-> 1, AAAA |-> 28, MX |-> 15, CNAME |-> 5]

Letters == "abcdefghijklmnopqrstuvwxyz"

Digits == "0123456789"

\* ord(c) of a lower-case letter, a digit or a hyphen
Ord(c) == IF Contains(Letters, c) THEN 96 + Find(Letters, c)
          ELSE IF Contains(Digits, c) THEN 47 + Find(Digits, c)
          ELSE 45

\* str.encode() of a host name
Encode(s) == [i \in 1..Len(s) |-> Ord(SubSeq(s, i, i))]

\* struct.pack('!H', n)
Pack16(n) == <<n \div 256, n % 256>>

\* struct.unpack('!H', b[i:i+2]) at the 1-based offset i
Unpack16(b, i) == b[i] * 256 + b[i + 1]

RECURSIVE QName(_)
\* lines 56-59: length-prefixed labels, then the zero byte
QName(labels) ==
    IF Len(labels) = 0 THEN <<0>>
    ELSE <<Len(Head(labels))>> \o Encode(Head(labels)) \o QName(Tail(labels))

\* lines 30-64, with the transaction id random.randint drew
create_dns_query(domain, record_type, transaction_id) ==
    Pack16(transaction_id) \o Pack16(256) \o Pack16(1)
        \o Pack16(0) \o Pack16(0) \o Pack16(0)
        \o QName(Split(domain, "."))
        \o Pack16(record_type) \o Pack16(1)

\* line 128: flags & 0x000F
RCode(flags) == flags % 16

---------------------------------------------------------------------------
(* common_tools.py: check_dns.                                             *)

\* the handler's result carrying the measured response time
DnsExceptResultTimed(text) ==
    [success          |-> FALSE,
     domain           |-> call.domain,
     record_type      |-> call.record_type,
     records          |-> {},
     response_time_ms |-> IF response_time' = None THEN None
                          ELSE Some(Round2(response_time'[1])),
     error            |-> Some(text)]

\* lines 154-163
DnsExceptResult(text) ==
    [success          |-> FALSE,
     domain           |-> call.domain,
     record_type      |-> call.record_type,
     records          |-> {},
     response_time_ms |-> None,
     error            |-> Some(text)]

\* lines 91-99
UnsupportedResult(domain, record_type) ==
    [success          |-> FALSE,
     domain           |-> domain,
     record_type      |-> record_type,
     records          |-> {},
     response_time_ms |-> None,
     error            |-> Some("Unsupported record type: " \o record_type)]

\* lines 144-152; list(set(records)) has no order of its own
DnsFoundResult(records) ==
    [success          |-> TRUE,
     domain           |-> call.domain,
     record_type      |-> call.record_type,
     records          |-> records,
     response_time_ms |-> Some(Round2(response_time'[1])),
     error            |-> None]

Domains == {"example.com", "a-1.io"}

RecordTypeNames == {"A", "AAAA", "MX", "CNAME", "TXT", "a", ""}

Nameservers == {"8.8.8.8", "ns.invalid"}

TransactionIds == {0, 65535}

\* a reply of n bytes: the flags at bytes 3-4, the answer count at bytes 7-8
Reply(n, flags, ancount) ==
    [i \in 1..n |-> IF i = 3 THEN flags \div 256
                    ELSE IF i = 4 THEN flags % 256
                    ELSE IF i = 8 THEN ancount
                    ELSE 0]

\* 0x8180 no error, 0x8183 NXDOMAIN, 0x8182 SERVFAIL, 0x8190 no error
ReplyFlags == {33152, 33155, 33154, 33168}

Replies == {Reply(n, f, a) : n \in 0..MaxRespLen, f \in ReplyFlags, a \in {0, 1}}

\* what socket.getaddrinfo answers: (family, address) pairs
AddrInfos == {<<>>, <<<<"AF_INET", "93.184.216.34">>>>,
              <<<<"AF_INET", "93.184.216.34">>, <<"AF_INET6", "2606:2800::1">>,
                <<"AF_INET", "93.184.216.34">>>>}

\* lines 137-140
FilterRecords(addrs, record_type) ==
    {addrs[i][2] : i \in {j \in 1..Len(addrs) :
        \/ record_type = "A" /\ addrs[j][1] = "AF_INET"
        \/ record_type = "AAAA" /\ addrs[j][1] = "AF_INET6"}}

\* the handler of lines 154-163 ends the call
DnsCaught(text) ==
    /\ exc' = Some([type |-> "Exception", text |-> text])
    /\ ret' = Some(DnsExceptResult(text))
    /\ pc' = "done"

\* lines 79-99: the record type is validated before any I/O
DnsCall ==
    /\ pc = "idle"
    /\ \E dom \in Domains, rt \in RecordTypeNames, ns \in Nameservers :
          /\ call' = [fn |-> "check_dns", domain |-> dom, record_type |-> rt,
                      nameserver |-> ns]
          /\ IF rt \notin DOMAIN record_types
             THEN ret' = Some(UnsupportedResult(dom, rt)) /\ pc' = "done"
             ELSE ret' = ret /\ pc' = "dns_send"
    /\ UNCHANGED <<parsed, token, token_response, manifest_response, http, exc,
                   elapsed, sock, sent, response, response_time>>

\* lines 101-111: the socket is opened and the query sent
DnsSend ==
    /\ pc = "dns_send"
    /\ UNCHANGED <<call, parsed, token, token_response, manifest_response, http,
                   elapsed, response, response_time>>
    /\ \/ /\ DnsCaught("[Errno 24] Too many open files")
          /\ UNCHANGED <<sock, sent>>
       \/ /\ sock' = "open"
          /\ \E tid \in TransactionIds :
                LET query == create_dns_query(call.domain,
                                              record_types[call.record_type], tid)
                IN  \/ /\ DnsCaught("[Errno -2] Name or service not known")
                       /\ UNCHANGED sent
                    \/ /\ sent' = Append(sent, [data |-> query,
                                                addr |-> <<call.nameserver, 53>>])
                       /\ pc' = "dns_recv"
                       /\ UNCHANGED <<exc, ret>>

\* lines 120-152: the reply parsed after the socket is closed
DnsParse(reply) ==
    IF Len(reply) < 12
    THEN DnsCaught("Response too short")
    ELSE LET flags   == Unpack16(reply, 3)
             ancount == Unpack16(reply, 7)
             rcode   == RCode(flags)
         IN  IF rcode # 0
             THEN DnsCaught("DNS response code: " \o ToString(rcode))
             ELSE /\ pc' = "done"
                  /\ UNCHANGED exc
                  /\ IF ancount > 0
                     THEN \/ ret' = Some(DnsFoundResult({}))
                          \/ \E addrs \in AddrInfos :
                               ret' = Some(DnsFoundResult(
                                          FilterRecords(addrs, call.record_type)))
                     ELSE ret' = Some(DnsFoundResult({}))

\* lines 113-152: the reply is awaited
DnsRecv ==
    /\ pc = "dns_recv"
    /\ \/ /\ UNCHANGED <<sock, response, response_time, elapsed>>
          /\ DnsCaught("timed out")
       \/ \E reply \in Replies, d \in Durations :
             /\ response' = Some(reply)
             /\ elapsed' = elapsed + d
             /\ response_time' = Some(elapsed')
             /\ sock' = "closed"
             /\ DnsParse(reply)
    /\ UNCHANGED <<call, parsed, token, token_response, manifest_response, http, sent>>

---------------------------------------------------------------------------
(* common_tools.py: check_port.                                            *)

\* lines 199-206
PortExceptResult(host, port, text) ==
    [success          |-> FALSE,
     host             |-> host,
     port             |-> port,
     response_time_ms |-> None,
     error            |-> Some(text)]

\* lines 190-197
PortResult(result) ==
    [success          |-> result = 0,
     host             |-> call.host,
     port             |-> call.port,
     response_time_ms |-> Some(Round2(response_time'[1])),
     error            |-> IF result = 0 THEN None
                          ELSE Some("Port " \o ToString(call.port) \o " is closed")]

Hosts == {"google.com", "192.168.1.1"}

Ports == {443, 65535, 70000}

PortTimeouts == {3, -1}

\* connect_ex: 0, ECONNREFUSED, EAGAIN after the timeout
ConnectResults == {0, 111, 11}

PortCaught(text) ==
    /\ exc' = Some([type |-> "Exception", text |-> text])
    /\ ret' = Some(PortExceptResult(call.host, call.port, text))
    /\ pc' = "done"

\* lines 177-183: the socket is opened and its timeout set
PortCall ==
    /\ pc = "idle"
    /\ \E h \in Hosts, p \in Ports, t \in PortTimeouts :
          /\ call' = [fn |-> "check_port", host |-> h, port |-> p, timeout |-> t]
          /\ \/ /\ exc' = Some([type |-> "Exception",
                                text |-> "[Errno 24] Too many open files"])
                /\ ret' = Some(PortExceptResult(h, p, "[Errno 24] Too many open files"))
                /\ pc' = "done"
                /\ UNCHANGED sock
             \/ /\ sock' = "open"
                /\ IF t < 0
                   THEN /\ exc' = Some([type |-> "Exception",
                                        text |-> "Timeout value out of range"])
                        /\ ret' = Some(PortExceptResult(h, p, "Timeout value out of range"))
                        /\ pc' = "done"
                   ELSE /\ pc' = "port_connect"
                        /\ UNCHANGED <<exc, ret>>
    /\ UNCHANGED <<parsed, token, token_response, manifest_response, http,
                   elapsed, sent, response, response_time>>

\* lines 185-197: the connection attempt
PortConnect ==
    /\ pc = "port_connect"
    /\ IF call.port \notin 0..65535
       THEN /\ PortCaught("connect_ex(): port must be 0-65535.")
            /\ UNCHANGED <<sock, elapsed, response_time>>
       ELSE \/ /\ PortCaught("[Errno -2] Name or service not known")
               /\ UNCHANGED <<sock, elapsed, response_time>>
            \/ \E result \in ConnectResults, d \in Durations :
                  /\ elapsed' = elapsed + d
                  /\ response_time' = Some(elapsed')
                  /\ sock' = "closed"
                  /\ ret' = Some(PortResult(result))
                  /\ pc' = "done"
                  /\ UNCHANGED exc
    /\ UNCHANGED <<call, parsed, token, token_response, manifest_response, http,
                   sent, response>>

---------------------------------------------------------------------------
(* The probes, one call at a time.                                         *)

Init ==
    /\ pc = "idle"
    /\ call = NoCall
    /\ parsed = None
    /\ ret = None
    /\ Quiet

Next ==
    \/ ImgCall \/ TokenRequest \/ ManifestRequest
    \/ DnsCall \/ DnsSend \/ DnsRecv
    \/ PortCall \/ PortConnect
    \/ Return

Spec == Init /\ [][Next]_vars

---------------------------------------------------------------------------
(* Properties of the Image Reference Resolver, under SpecResolver.         *)

\* the part of s before its first c, all of s when c does not occur
Before(s, c) == IF Contains(s, c) THEN SubSeq(s, 1, Find(s, c) - 1) ELSE s

\* the part of s after its first c
After(s, c) == SubSeq(s, Find(s, c) + 1, Len(s))

Resolved == pc = "return" /\ call.fn = "_parse_image_name"

\* C5: for every image name and every registry override, the registry the
\* resolver returns begins with neither "http://" nor "https://".
C5_RegistryHasNoScheme ==
    Resolved =>
        /\ ~StartsWith(parsed[1].registry, "http://")
        /\ ~StartsWith(parsed[1].registry, "https://")

\* the rule of C7 for a name n that is not of the bare host:port form
ResolverRule(n, p) ==
    LET seg   == Before(n, "/")
        named == Contains(seg, ".") /\ Contains(n, "/")
        reg   == IF named THEN seg ELSE "registry-1.docker.io"
        rest  == IF named THEN After(n, "/") ELSE n
        repo  == Before(rest, ":")
        tag   == IF Contains(rest, ":") THEN After(rest, ":") ELSE "latest"
    IN  /\ p.registry = reg
        /\ p.tag = tag
        /\ p.repository = IF reg = "registry-1.docker.io" /\ ~Contains(repo, "/")
                          THEN "library/" \o repo
                          ELSE repo

BareHostPort(n) == ~Contains(n, "/") /\ Contains(n, ".") /\ Contains(n, ":")

\* C7: without a registry override the registry is the first '/'-separated
\* segment when it contains '.' and more segments follow, else
\* registry-1.docker.io (the bare host:port form apart); repository and tag
\* are the remaining name split at its first ':' (tag latest without one);
\* a Docker Hub repository without '/' gets the library/ prefix; and the
\* three named examples resolve as the spec lists them.
C7_ResolverContract ==
    (Resolved /\ call.registry = None) =>
        LET n == call.image_name
            p == parsed[1]
        IN  /\ ~BareHostPort(n) => ResolverRule(n, p)
            /\ n = "hello-world" =>
                 p = [registry |-> "registry-1.docker.io",
                      repository |-> "library/hello-world", tag |-> "latest"]
            /\ n = "myregistry.com/myimage:v2" =>
                 p = [registry |-> "myregistry.com", repository |-> "myimage",
                      tag |-> "v2"]
            /\ n = "nginx:1.25" =>
                 p = [registry |-> "registry-1.docker.io",
                      repository |-> "library/nginx", tag |-> "1.25"]

---------------------------------------------------------------------------
(* Properties of the Registry Manifest Probe, under Spec.                  *)

ImgDone == pc = "done" /\ call.fn = "check_image_pull"

IsMapping(r) == r # None /\ r[1] # PyNone

\* C1: whenever the manifest HEAD request completes with a status other
\* than 200 or 404, the probe returns a failure mapping with success false,
\* status_code null and error set.
C1_OtherStatusFails ==
    (ImgDone /\ manifest_response # None /\ manifest_response[1] \notin {200, 404}) =>
        /\ IsMapping(ret)
        /\ ret[1].success = FALSE
        /\ ret[1].status_code = None
        /\ ret[1].error # None

\* C2: in every result mapping the probe returns, success holds only for a
\* 200 manifest answer (then status_code is 200 and error null); a 404
\* answer gives success false, status_code 404 and an error mentioning
\* "not found"; a failure caused by an exception has status_code null; so a
\* failure carries a status_code iff the manifest endpoint answered 404.
C2_StatusCodeContract ==
    (ImgDone /\ IsMapping(ret)) =>
        LET r == ret[1]
        IN  /\ r.success => /\ manifest_response = Some(200)
                            /\ r.status_code = Some(200)
                            /\ r.error = None
            /\ manifest_response = Some(404) =>
                   /\ ~r.success
                   /\ r.status_code = Some(404)
                   /\ Contains(r.error[1], "not found")
            /\ exc # None => ~r.success /\ r.status_code = None
            /\ ~r.success => (r.status_code # None <=> manifest_response = Some(404))

C2_Witness ==
    /\ ImgDone
    /\ manifest_response = Some(404)
    /\ IsMapping(ret)
    /\ ret[1].status_code = Some(404)

\* C6 as stated: when the token or manifest request raises, the failure has
\* status_code null and the exception text as both error and message.
C6_ErrorIsExceptionText ==
    (ImgDone /\ exc # None) =>
        /\ IsMapping(ret)
        /\ ret[1].status_code = None
        /\ ret[1].error = Some(exc[1].text)
        /\ ret[1].message = exc[1].text

\* C6 amended: when the token or manifest request raises, the failure has
\* status_code null, the exception text as message, and as error that text
\* behind "HTTP Request Error: " (a requests exception) or behind
\* "An unexpected error occurred: " (any other exception).
C6_ErrorIsPrefixedText ==
    (ImgDone /\ exc # None) =>
        /\ IsMapping(ret)
        /\ ~ret[1].success
        /\ ret[1].status_code = None
        /\ ret[1].message = exc[1].text
        /\ ret[1].error = Some((IF exc[1].type = "RequestException"
                                THEN "HTTP Request Error: "
                                ELSE "An unexpected error occurred: ") \o exc[1].text)

C6_Witness ==
    /\ ImgDone
    /\ exc # None
    /\ exc[1].text = "Read timed out"
    /\ IsMapping(ret)
    /\ ret[1].error = Some("HTTP Request Error: Read timed out")

TokenRequests == {i \in DOMAIN http : http[i].method = "GET"}

ManifestRequests == {i \in DOMAIN http : http[i].method = "HEAD"}

\* C9: a token request is issued iff the resolved registry is
\* registry-1.docker.io, ends with docker.io or contains daocloud.io; it
\* precedes the manifest request; the manifest request is issued only if
\* the token request was answered 2xx; for any other registry exactly the
\* manifest request is issued.
C9_TokenGatesManifest ==
    (call.fn = "check_image_pull" /\ pc \in {"manifest", "done"}) =>
        LET host == parsed[1].registry
            hub  == \/ host = "registry-1.docker.io"
                    \/ EndsWith(host, "docker.io")
                    \/ Contains(host, "daocloud.io")
        IN  /\ TokenRequests # {} <=> hub
            /\ \A i \in TokenRequests, j \in ManifestRequests : i < j
            /\ (hub /\ ManifestRequests # {}) =>
                   /\ token_response # None
                   /\ token_response[1].status \in 200..299
            /\ (~hub /\ pc = "done") =>
                   Len(http) = 1 /\ http[1].method = "HEAD"

\* the token endpoint handed out a token in this call
TokenObtained ==
    /\ token_response # None
    /\ token_response[1].body.kind = "object"
    /\ Truthy(token_response[1].body.token)

\* the token endpoint answered 2xx with an object that has no token field
TokenAbsent ==
    /\ token_response # None
    /\ token_response[1].status \in 200..299
    /\ token_response[1].body.kind = "object"
    /\ token_response[1].body.token = None

\* C10: the manifest HEAD request carries "Authorization: Bearer {token}"
\* iff a token was obtained from the token endpoint in the same call; after
\* a 2xx token answer without a token field the probe goes on to the
\* manifest request, issued without an Authorization header.
C10_AuthorizationIffToken ==
    (call.fn = "check_image_pull") =>
        /\ \A i \in ManifestRequests :
              /\ "Authorization" \in DOMAIN http[i].headers <=> TokenObtained
              /\ TokenObtained =>
                    http[i].headers.Authorization
                        = "Bearer " \o token_response[1].body.token[1]
        /\ TokenAbsent =>
              \/ pc = "manifest" /\ exc = None /\ ret = None
              \/ /\ pc = "done"
                 /\ \E i \in ManifestRequests :
                       "Authorization" \notin DOMAIN http[i].headers

C10_Witness ==
    /\ ImgDone
    /\ TokenAbsent
    /\ \E i \in ManifestRequests : DOMAIN http[i].headers = {"Accept"}

---------------------------------------------------------------------------
(* Properties of check_dns and check_port, under Spec.                     *)

\* C3: check_dns and check_port never return while the socket the call
\* opened is still open.
C3_SocketClosedOnReturn ==
    (pc = "done" /\ call.fn \in {"check_dns", "check_port"}) => sock # "open"

\* check_dns has returned after a reply that is short or carries a nonzero
\* response code (the low four bits of the flags, bytes 3-4)
ParseFailure ==
    /\ pc = "done"
    /\ call.fn = "check_dns"
    /\ response # None
    /\ \/ Len(response[1]) < 12
       \/ response[1][4] % 16 # 0

ParseFailureText ==
    IF Len(response[1]) < 12 THEN "Response too short"
    ELSE "DNS response code: " \o ToString(response[1][4] % 16)

\* C4 as stated: after a short reply or a nonzero response code check_dns
\* returns a failure with the specific error text, no records, and the
\* measured round-trip time as response_time_ms.
C4_ParseFailureKeepsTiming ==
    ParseFailure =>
        /\ ~ret[1].success
        /\ ret[1].error = Some(ParseFailureText)
        /\ ret[1].records = {}
        /\ ret[1].response_time_ms # None

\* C4 amended: after a short reply or a nonzero response code check_dns
\* returns a failure with the specific error text, no records, and a null
\* response_time_ms, although the round trip had been measured.
C4_ParseFailureDropsTiming ==
    ParseFailure =>
        /\ ~ret[1].success
        /\ ret[1].error = Some(ParseFailureText)
        /\ ret[1].records = {}
        /\ response_time # None
        /\ ret[1].response_time_ms = None

C4_Witness ==
    /\ ParseFailure
    /\ Len(response[1]) >= 12
    /\ ret[1].error = Some("DNS response code: 3")
    /\ response_time # None

\* C8: called with a record type other than A, AAAA, MX or CNAME, check_dns
\* returns the structured "Unsupported record type" failure without opening
\* a socket, sending a datagram or raising.
C8_UnsupportedTypeNoIO ==
    (call.fn = "check_dns" /\ call.record_type \notin {"A", "AAAA", "MX", "CNAME"}) =>
        /\ pc = "done"
        /\ sock = "none"
        /\ sent = <<>>
        /\ exc = None
        /\ ret = Some([success          |-> FALSE,
                       domain           |-> call.domain,
                       record_type      |-> call.record_type,
                       records          |-> {},
                       response_time_ms |-> None,
                       error            |-> Some("Unsupported record type: "
                                                     \o call.record_type)])

C8_Witness ==
    /\ pc = "done"
    /\ call.fn = "check_dns"
    /\ call.record_type = "TXT"
    /\ sock = "none"
    /\ sent = <<>>

=============================================================================
